---- MODULE Spec2Model ----
\* Model of the card game session server (src/main.py): one Game session, its
\* players, deck, turn order, websocket connection registry and asyncio lock,
\* driven by the HTTP handlers join_game / discard / play_hand / end_turn and
\* the game_websocket handler.  The handlers are asyncio coroutines: a handler
\* runs without interruption until it awaits, so every action below is one run
\* of a task from a resumption to its next suspension (or to its return), and
\* `running` names the task that owns the event loop in between.
EXTENDS Integers, Sequences, FiniteSets, TLC

\* ------------------------------------------------------------------ bounds
\* Hand size kept by the refill loop (8 in src/main.py:123 and :268), scaled.
HandSize == 2
\* Copies of every card in a fresh deck (10 in src/main.py:33), scaled.
Copies == 5
\* Player.max_health (100 in src/main.py:38), scaled.
BaseMaxHealth == 2
\* Longest card selection a request carries.
MaxSel == 2
\* HTTP handler tasks that can be in flight together.
MaxReqs == 2
\* Websocket connections opened over the life of the session.
MaxSockets == 2
\* Cards in one scored selection (a full hand of 8, src/main.py:123).
MaxScored == 8
MaxOwned == 3           \* upgrades one player comes to own
MaxGold == 10           \* gold a player holds when the store opens
SelectionSize == 5      \* upgrades in one store selection

\* Player ids that requests may name (an id that has not joined is unknown).
Names == {"p1", "p2"}
\* Ranks and suits that requests may name, subsets of src/main.py:31-32, and
\* the ranks the modelled deck is made of.
Ranks == {"2", "3"}
Suits == {"Fire"}
DeckRanks == {"3"}

Reqs == 1..MaxReqs
Sockets == 1..MaxSockets

\* ------------------------------------------------------------------ cards
Cards == [rank : DeckRanks, suit : Suits]

generate_deck == [c \in Cards |-> Copies]

DeckSize(d) == LET RECURSIVE Sum(_)
                   Sum(S) == IF S = {} THEN 0
                             ELSE LET c == CHOOSE x \in S : TRUE
                                  IN d[c] + Sum(S \ {c})
               IN Sum(DOMAIN d)

\* Non-empty card lists of bounded length: the "cards" field of a request.
RECURSIVE SeqsUpTo(_, _)
SeqsUpTo(S, n) == IF n = 0 THEN {<<>>}
                  ELSE LET shorter == SeqsUpTo(S, n - 1)
                       IN shorter \cup {Append(s, x) : s \in shorter, x \in S}

Selections == SeqsUpTo([rank : Ranks, suit : Suits], MaxSel)

\* ------------------------------------------------------- calculate_damage
multipliers == [t \in {"high card", "pair", "two pair", "three of a kind",
                       "straight", "flush", "full house", "four of a kind",
                       "straight flush", "royal flush"} |->
                  CASE t = "high card" -> 1
                    [] t = "pair" -> 2
                    [] t = "two pair" -> 2
                    [] t = "three of a kind" -> 3
                    [] t = "straight" -> 4
                    [] t = "flush" -> 4
                    [] t = "full house" -> 4
                    [] t = "four of a kind" -> 7
                    [] t = "straight flush" -> 8
                    [] t = "royal flush" -> 10]

rank_dict == [r \in {"2", "3", "4", "5", "6", "7", "8", "9", "10", "J", "Q", "K", "A"} |->
                CASE r = "2" -> 2 [] r = "3" -> 3 [] r = "4" -> 4 [] r = "5" -> 5
                  [] r = "6" -> 6 [] r = "7" -> 7 [] r = "8" -> 8 [] r = "9" -> 9
                  [] r = "10" -> 10 [] r = "J" -> 11 [] r = "Q" -> 12
                  [] r = "K" -> 13 [] r = "A" -> 14]

RECURSIVE SumSeq(_)
SumSeq(s) == IF s = <<>> THEN 0 ELSE Head(s) + SumSeq(Tail(s))

SetMax(S) == CHOOSE x \in S : \A y \in S : y <= x
SetMin(S) == CHOOSE x \in S : \A y \in S : x <= y

\* sorted(set(ranks))
RECURSIVE SortedSeq(_)
SortedSeq(S) == IF S = {} THEN <<>>
                ELSE <<SetMin(S)>> \o SortedSeq(S \ {SetMin(S)})

\* ranks: the numeric rank of every card, in the order given.
RanksOf(cards) == [i \in 1..Len(cards) |-> rank_dict[cards[i].rank]]

\* rank_counts / suit_counts
RankCount(cards, r) == Cardinality({i \in 1..Len(cards) : rank_dict[cards[i].rank] = r})
SuitCount(cards, s) == Cardinality({i \in 1..Len(cards) : cards[i].suit = s})

\* is_flush without the length guard.
is_flush_NoGuard(cards) ==
    SetMax({SuitCount(cards, cards[i].suit) : i \in 1..Len(cards)}) = Len(cards)

\* is_flush = (max(suit_counts.values()) == len(cards)) and len(cards) >= 5
is_flush(cards) ==
    /\ SetMax({SuitCount(cards, cards[i].suit) : i \in 1..Len(cards)}) = Len(cards)
    /\ Len(cards) >= 5

\* is_straight without the ace-low case.
is_straight_NoAceLow(cards) ==
    LET sorted_ranks == SortedSeq({rank_dict[cards[i].rank] : i \in 1..Len(cards)})
        m == Len(sorted_ranks)
    IN /\ m >= 5
       /\ \E i \in 1..(m - 4) : sorted_ranks[i + 4] - sorted_ranks[i] = 4

\* is_straight: a window of five consecutive values in sorted(set(ranks)), or
\* its last five entries being [2, 3, 4, 5, 14].
is_straight(cards) ==
    LET sorted_ranks == SortedSeq({rank_dict[cards[i].rank] : i \in 1..Len(cards)})
        m == Len(sorted_ranks)
    IN /\ m >= 5
       /\ \/ \E i \in 1..(m - 4) : sorted_ranks[i + 4] - sorted_ranks[i] = 4
          \/ SubSeq(sorted_ranks, m - 4, m) = <<2, 3, 4, 5, 14>>

\* calculate_damage testing four of a kind before the straight flush.
calculate_damage_QuadsFirst(cards) ==
    LET ranks == RanksOf(cards)
        rankSet == {ranks[i] : i \in 1..Len(cards)}
        InFreq(k) == \E r \in rankSet : RankCount(cards, r) = k
        CountFreq(k) == Cardinality({r \in rankSet : RankCount(cards, r) = k})
        hand_type ==
            IF InFreq(4) THEN "four of a kind"
            ELSE IF is_straight(cards) /\ is_flush(cards)
              THEN (IF SetMax(rankSet) = 14 THEN "royal flush" ELSE "straight flush")
            ELSE IF InFreq(3) /\ InFreq(2) THEN "full house"
            ELSE IF is_flush(cards) THEN "flush"
            ELSE IF is_straight(cards) THEN "straight"
            ELSE IF InFreq(3) THEN "three of a kind"
            ELSE IF CountFreq(2) = 2 THEN "two pair"
            ELSE IF InFreq(2) THEN "pair"
            ELSE "high card"
        multiplier == multipliers[hand_type]
        base_damage == SumSeq(ranks) \div 5
    IN [total_damage |-> base_damage * multiplier,
        hand_type |-> hand_type,
        multiplier |-> multiplier]

\* cards is a non-empty sequence of card records.
calculate_damage(cards) ==
    LET ranks == RanksOf(cards)
        rankSet == {ranks[i] : i \in 1..Len(cards)}
        InFreq(k) == \E r \in rankSet : RankCount(cards, r) = k
        CountFreq(k) == Cardinality({r \in rankSet : RankCount(cards, r) = k})
        hand_type ==
            IF is_straight(cards) /\ is_flush(cards)
              THEN (IF SetMax(rankSet) = 14 THEN "royal flush" ELSE "straight flush")
            ELSE IF InFreq(4) THEN "four of a kind"
            ELSE IF InFreq(3) /\ InFreq(2) THEN "full house"
            ELSE IF is_flush(cards) THEN "flush"
            ELSE IF is_straight(cards) THEN "straight"
            ELSE IF InFreq(3) THEN "three of a kind"
            ELSE IF CountFreq(2) = 2 THEN "two pair"
            ELSE IF InFreq(2) THEN "pair"
            ELSE "high card"
        multiplier == multipliers[hand_type]
        base_damage == SumSeq(ranks) \div 5
    IN [total_damage |-> base_damage * multiplier,
        hand_type |-> hand_type,
        multiplier |-> multiplier]

\* ------------------------------------------------------------------ state
VARIABLES
    players,                \* Game.players: joined id -> Player
    player_keys,            \* list(game.players.keys()): ids in join order
    turn_index,             \* Game.turn_index
    deck,                   \* Game.deck as a bag: card -> copies left
    websocket_connections,  \* Game.websocket_connections in insertion order
    lock,                   \* Game.lock: the request holding it, 0 when free
    waiters,                \* Game.lock's FIFO queue of suspended acquirers
    req,                    \* HTTP handler tasks in flight
    sock,                   \* game_websocket handler tasks
    running,                \* the task that owns the event loop
    response,               \* what the step just taken returned to an HTTP client
    sent_cards,         \* the cards a client has sent to be scored
    scored,                 \* what calculate_damage returned for them, call by call
    shopper,                \* a Player of src/player.py with its upgrades and gold
    selecting               \* a call of get_selection_of_upgrades: its place and locals

vars == <<players, player_keys, turn_index, deck, websocket_connections,
          lock, waiters, req, sock, running, response, sent_cards, scored, shopper,
          selecting>>

\* The state outside the session: the calls of the functions taken alone.
calls == <<sent_cards, scored, shopper, selecting>>

session == <<players, player_keys, turn_index, deck>>

\* Player.__init__
Player(name) == [health |-> BaseMaxHealth, max_health |-> BaseMaxHealth, wins |-> 0,
                 hand |-> <<>>, remaining_discards |-> 1, gold |-> 0]

\* A reset that leaves health as it is.
PlayerReset_KeepHealth(pl) == [pl EXCEPT !.hand = <<>>, !.remaining_discards = 1]

\* Player.reset
PlayerReset(pl) == [pl EXCEPT !.health = pl.max_health,
                              !.hand = <<>>,
                              !.remaining_discards = 1]

\* Game.add_player
add_player(ps, keys, name) ==
    IF name \in DOMAIN ps
      THEN [players |-> ps, keys |-> keys]
      ELSE [players |-> (name :> Player(name)) @@ ps, keys |-> Append(keys, name)]

\* Game.reset_game: a fresh deck, every player reset, turn_index 0
reset_game(ps) ==
    [players |-> [n \in DOMAIN ps |-> PlayerReset(ps[n])],
     deck |-> generate_deck,
     turn_index |-> 0]

\* deck.pop(random index) followed by hand.append: every card left in the deck
\* may be the one drawn.
DrawInto(h, d) ==
    {[hand |-> Append(h, c), deck |-> [d EXCEPT ![c] = @ - 1]] :
        c \in {x \in Cards : d[x] > 0}}

\* Game.deal_card: regenerates an empty deck, then draws one card.
deal_card(h, d) == DrawInto(h, IF DeckSize(d) = 0 THEN generate_deck ELSE d)

\* The refill loop of remove_selected_cards:
\*   while len(player.hand) < 8 and self.deck: self.deal_card(player_id)
RECURSIVE Refill(_, _)
Refill(h, d) ==
    IF Len(h) < HandSize /\ DeckSize(d) > 0
      THEN UNION {Refill(o.hand, o.deck) : o \in deal_card(h, d)}
      ELSE {[hand |-> h, deck |-> d]}

\* The initial deal of game_websocket:
\*   for _ in range(8): if game.deck: hand.append(deck.pop(random index))
RECURSIVE InitialDeal(_, _, _)
InitialDeal(h, d, k) ==
    IF k = 0 THEN {[hand |-> h, deck |-> d]}
    ELSE IF DeckSize(d) > 0
      THEN UNION {InitialDeal(o.hand, o.deck, k - 1) : o \in DrawInto(h, d)}
      ELSE InitialDeal(h, d, k - 1)

\* Game.remove_selected_cards: the set of possible outcomes
\* [error, players, deck, discarded]; error "" is success.
remove_selected_cards(ps, d, player_id, selected_cards) ==
    IF player_id \notin DOMAIN ps
      THEN {[error |-> "Player not found", players |-> ps, deck |-> d, discarded |-> <<>>]}
    ELSE IF ps[player_id].hand = <<>>
      THEN {[error |-> "Player has no hand", players |-> ps, deck |-> d, discarded |-> <<>>]}
    ELSE
      LET hand == ps[player_id].hand
          selected_card_tuples == {selected_cards[i] : i \in 1..Len(selected_cards)}
          Kept(c) == c \notin selected_card_tuples
          Gone(c) == c \in selected_card_tuples
          new_hand == SelectSeq(hand, Kept)
          discarded_cards == SelectSeq(hand, Gone)
      IN IF Len(new_hand) = Len(hand)
           THEN {[error |-> "Selected cards not found in hand", players |-> ps,
                  deck |-> d, discarded |-> <<>>]}
           ELSE {[error |-> "", players |-> [ps EXCEPT ![player_id].hand = o.hand],
                  deck |-> o.deck, discarded |-> discarded_cards] :
                    o \in Refill(new_hand, d)}

\* --------------------------------------------- src/player.py, src/upgrades.py
\* Upgrade(id, name, tier, rarity, effect, cost).  A name is kept as its words
\* and an effect such as "+25% HP" as its number, whether a "%" follows the
\* number, and the rest.
Upgrade(id, name, tier, rarity, amount, percent, rest, cost) ==
    [id |-> id, name |-> name, tier |-> tier, rarity |-> rarity,
     effect |-> [amount |-> amount, percent |-> percent, rest |-> rest], cost |-> cost]

\* The elemental upgrades _initialize_upgrades adds for the k-th element
\* (ids 13 + 3k, 14 + 3k, 15 + 3k).
ElementUpgrades(element, k) ==
    <<Upgrade(13 + 3 * k, <<"Increase", element, "Damage">>, 1, "uncommon", 20, TRUE,
              <<element, "Damage">>, 4),
      Upgrade(14 + 3 * k, <<"Increase", element, "Damage">>, 2, "rare", 40, TRUE,
              <<element, "Damage">>, 7),
      Upgrade(15 + 3 * k, <<"Increase", element, "Damage">>, 3, "epic", 60, TRUE,
              <<element, "Damage">>, 10)>>

\* UpgradeStore._initialize_upgrades: the catalog in the order it is added.
AddedUpgrades ==
    <<Upgrade(1, <<"Increase", "Health">>, 1, "common", 20, FALSE, <<"HP">>, 4),
      Upgrade(2, <<"Increase", "Health">>, 2, "uncommon", 40, FALSE, <<"HP">>, 10),
      Upgrade(3, <<"Increase", "Health">>, 3, "rare", 60, FALSE, <<"HP">>, 16),
      Upgrade(4, <<"Increase", "Health", "%">>, 1, "common", 25, TRUE, <<"HP">>, 4),
      Upgrade(5, <<"Increase", "Health", "%">>, 2, "uncommon", 50, TRUE, <<"HP">>, 8),
      Upgrade(6, <<"Increase", "Discards">>, 1, "common", 1, FALSE, <<"Discard">>, 6),
      Upgrade(7, <<"Increase", "Discards">>, 2, "rare", 2, FALSE, <<"Discards">>, 12),
      Upgrade(8, <<"Increase", "Discards">>, 3, "legendary", 3, FALSE, <<"Discards">>, 22),
      Upgrade(9, <<"Increase", "Damage">>, 1, "uncommon", 10, TRUE, <<"Damage">>, 8),
      Upgrade(10, <<"Increase", "Damage">>, 2, "rare", 20, TRUE, <<"Damage">>, 12),
      Upgrade(11, <<"Increase", "Damage">>, 3, "epic", 30, TRUE, <<"Damage">>, 18),
      Upgrade(12, <<"Increase", "Damage">>, 4, "legendary", 50, TRUE, <<"Damage">>, 24)>>
    \o ElementUpgrades("Earth", 0) \o ElementUpgrades("Fire", 1)
    \o ElementUpgrades("Water", 2) \o ElementUpgrades("Air", 3)

\* UpgradeStore.upgrades: rarity -> the upgrades of that rarity, as added.
Rarities == <<"common", "uncommon", "rare", "epic", "legendary">>
StoreUpgrades ==
    [r \in {Rarities[k] : k \in 1..Len(Rarities)} |->
        LET OfRarity(u) == u.rarity = r IN SelectSeq(AddedUpgrades, OfRarity)]

\* The upgrades in the order get_price_by_id and get_upgrade_by_id visit them.
RECURSIVE Visited(_)
Visited(k) == IF k = 0 THEN <<>> ELSE Visited(k - 1) \o StoreUpgrades[Rarities[k]]

\* UpgradeStore.get_upgrade_by_id: the first upgrade with that id, or None.
None == [id |-> 0]
get_upgrade_by_id(upgrade_id) ==
    LET all == Visited(Len(Rarities))
        hits == {k \in 1..Len(all) : all[k].id = upgrade_id}
    IN IF hits = {} THEN None ELSE all[SetMin(hits)]

\* The lookup returning the tier in place of the cost.
get_price_by_id_Tier(upgrade_id) ==
    IF get_upgrade_by_id(upgrade_id) = None THEN None
    ELSE get_upgrade_by_id(upgrade_id).tier

\* UpgradeStore.get_price_by_id: its cost, or None.
get_price_by_id(upgrade_id) ==
    IF get_upgrade_by_id(upgrade_id) = None THEN None
    ELSE get_upgrade_by_id(upgrade_id).cost

\* No call of get_selection_of_upgrades is under way.
NoSelection == [pc |-> "idle", selection |-> {}, result |-> <<>>]

\* int(upgrade.effect.split()[0]): the first word must be the bare number.
IntOfFirstWord(effect) == CASE ~effect.percent -> effect.amount
\* int(upgrade.effect.split('%')[0]): a "%" must follow the number.
IntBeforePercent(effect) == CASE effect.percent -> effect.amount

\* Player.__init__ of src/player.py.  The damage modifiers are floats built by
\* adding hundredths to 1.0; they are kept as the number of hundredths.
NewPlayer(name) ==
    [name |-> name, max_health |-> 100, health |-> 100, wins |-> 0, hand |-> <<>>,
     remaining_discards |-> 1, max_discards |-> 1, upgrades |-> <<>>, gold |-> 0,
     damage_modifier |-> 100, water_damage_modifier |-> 100,
     fire_damage_modifier |-> 100, air_damage_modifier |-> 100,
     earth_damage_modifier |-> 100]

\* The loop turn with the percentage bonuses multiplied into one another.
ApplyOne_Product(acc, upgrade) ==
    IF upgrade.name = <<"Increase", "Health">>
      THEN [acc EXCEPT !.player.max_health = @ + upgrade.effect.amount]
    ELSE IF upgrade.name = <<"Increase", "Health", "%">>
      THEN [acc EXCEPT !.bonus = (@ * (100 + upgrade.effect.amount)) \div 100]
    ELSE IF upgrade.name = <<"Increase", "Discards">>
      THEN [acc EXCEPT !.player.max_discards = @ + upgrade.effect.amount]
    ELSE acc

\* One turn of the loop of apply_upgrades over acc, the player and the
\* running health_percentage_bonus (in hundredths).
ApplyOne(acc, upgrade) ==
    LET pl == acc.player
        element == upgrade.name[2]
    IN IF upgrade.name = <<"Increase", "Health">>
         THEN [acc EXCEPT !.player.max_health = @ + IntOfFirstWord(upgrade.effect)]
       ELSE IF upgrade.name = <<"Increase", "Health", "%">>
         THEN [acc EXCEPT !.bonus = @ + IntBeforePercent(upgrade.effect)]
       ELSE IF upgrade.name = <<"Increase", "Discards">>
         THEN [acc EXCEPT !.player.max_discards = @ + IntOfFirstWord(upgrade.effect)]
       ELSE IF upgrade.name = <<"Increase", "Damage">>
         THEN [acc EXCEPT !.player.damage_modifier = @ + IntBeforePercent(upgrade.effect)]
       ELSE IF upgrade.name[1] = "Increase" /\ upgrade.name[Len(upgrade.name)] = "Damage"
         THEN CASE element = "Earth" ->
                     [acc EXCEPT !.player.earth_damage_modifier =
                                     @ + IntBeforePercent(upgrade.effect)]
                [] element = "Fire" ->
                     [acc EXCEPT !.player.fire_damage_modifier =
                                     @ + IntBeforePercent(upgrade.effect)]
                [] element = "Water" ->
                     [acc EXCEPT !.player.water_damage_modifier =
                                     @ + IntBeforePercent(upgrade.effect)]
                [] element = "Air" ->
                     [acc EXCEPT !.player.air_damage_modifier =
                                     @ + IntBeforePercent(upgrade.effect)]
       ELSE acc

RECURSIVE ApplyAll(_, _)
ApplyAll(acc, upgrades) ==
    IF upgrades = <<>> THEN acc
    ELSE ApplyAll(ApplyOne(acc, Head(upgrades)), Tail(upgrades))

\* Player.apply_upgrades.  int(max_health * health_percentage_bonus): the
\* bonus is 1.0 plus quarters (the catalog's percentages are 25 and 50), so the
\* float product is exact and int() is the floor.
apply_upgrades(pl) ==
    LET base == [pl EXCEPT !.max_health = 100, !.max_discards = 1,
                           !.damage_modifier = 100, !.water_damage_modifier = 100,
                           !.fire_damage_modifier = 100, !.air_damage_modifier = 100,
                           !.earth_damage_modifier = 100]
        acc == ApplyAll([player |-> base, bonus |-> 100], pl.upgrades)
        max_health == (acc.player.max_health * acc.bonus) \div 100
    IN [acc.player EXCEPT !.max_health = max_health,
                          !.health = max_health,
                          !.remaining_discards = acc.player.max_discards]

\* ------------------------------------------------- connection registry
\* Index of player's entry in the connection dict, 0 when it has none.
KeyIndex(conns, player) ==
    IF \E i \in 1..Len(conns) : conns[i].player = player
      THEN CHOOSE i \in 1..Len(conns) : conns[i].player = player
      ELSE 0

RemoveAt(s, j) == SubSeq(s, 1, j - 1) \o SubSeq(s, j + 1, Len(s))

\* game.websocket_connections[player_id] = websocket
SetConn(conns, player, ws) ==
    IF KeyIndex(conns, player) = 0
      THEN Append(conns, [player |-> player, ws |-> ws])
      ELSE [conns EXCEPT ![KeyIndex(conns, player)].ws = ws]

\* del game.websocket_connections[player]: KeyError when the key is absent.
\* `at` is the index the entry had (for the iterators suspended over the dict).
DelConn(conns, player) ==
    IF KeyIndex(conns, player) = 0
      THEN [conns |-> conns, error |-> "KeyError", at |-> <<>>]
      ELSE [conns |-> RemoveAt(conns, KeyIndex(conns, player)), error |-> "",
            at |-> <<KeyIndex(conns, player)>>]

\* for player in disconnected_players: del self.websocket_connections[player]
\* stops at the first KeyError; the deletions before it stay.
RECURSIVE RemoveDisconnected(_, _)
RemoveDisconnected(conns, disconnected_players) ==
    IF disconnected_players = <<>>
      THEN [conns |-> conns, error |-> "", at |-> <<>>]
    ELSE LET first == DelConn(conns, Head(disconnected_players))
         IN IF first.error # "" THEN first
            ELSE LET rest == RemoveDisconnected(first.conns, Tail(disconnected_players))
                 IN [rest EXCEPT !.at = first.at \o @]

\* State of a broadcast suspended in `await ws.send_json(message)`: the dict
\* iterator (pos: entries consumed, len: entries it still expects, used: the
\* dict size when the iteration began), the entry being sent to, and
\* disconnected_players so far.
NoBc == [pos |-> 0, len |-> 0, used |-> 0, player |-> "", ws |-> 0, failed |-> <<>>]

\* next() of the dict iterator: RuntimeError when the dict changed size or
\* holds more entries than the iterator expects, "stop" at the end.
IterNext(bc, conns) ==
    IF Len(conns) # bc.used THEN [status |-> "RuntimeError", bc |-> NoBc]
    ELSE IF bc.pos >= Len(conns) THEN [status |-> "stop", bc |-> bc]
    ELSE IF bc.len = 0 THEN [status |-> "RuntimeError", bc |-> NoBc]
    ELSE [status |-> "send",
          bc |-> [bc EXCEPT !.pos = bc.pos + 1, !.len = bc.len - 1,
                            !.player = conns[bc.pos + 1].player,
                            !.ws = conns[bc.pos + 1].ws]]

\* Game.broadcast from the iterator state bc up to its next suspension:
\* status "send" (suspended in a send), "done", or the exception raised.
BroadcastRun(bc, conns) ==
    LET nx == IterNext(bc, conns)
    IN IF nx.status = "send"
         THEN [status |-> "send", bc |-> nx.bc, conns |-> conns, at |-> <<>>]
       ELSE IF nx.status = "RuntimeError"
         THEN [status |-> "RuntimeError", bc |-> NoBc, conns |-> conns, at |-> <<>>]
       ELSE LET rm == RemoveDisconnected(conns, bc.failed)
            IN [status |-> IF rm.error = "" THEN "done" ELSE rm.error,
                bc |-> NoBc, conns |-> rm.conns, at |-> rm.at]

\* Game.broadcast from its first line.
BroadcastBegin(conns) ==
    BroadcastRun([NoBc EXCEPT !.used = Len(conns), !.len = Len(conns)], conns)

\* Game.broadcast resumed after a send: a failed send appends the player to
\* disconnected_players, then the loop goes on.
BroadcastResume(bc, conns, sent) ==
    BroadcastRun(IF sent THEN bc ELSE [bc EXCEPT !.failed = Append(@, bc.player)], conns)

\* The position of a suspended iterator after the entries at indices `at`
\* (deleted in that order) left the dict.
RECURSIVE ShiftPos(_, _)
ShiftPos(pos, at) ==
    IF at = <<>> THEN pos
    ELSE ShiftPos(IF pos >= Head(at) THEN pos - 1 ELSE pos, Tail(at))

ShiftAll(tasks, at) ==
    [i \in DOMAIN tasks |->
        IF tasks[i].pc = "bc_send"
          THEN [tasks[i] EXCEPT !.bc.pos = ShiftPos(@, at)]
          ELSE tasks[i]]

\* ------------------------------------------------------------------ tasks
FreeReq == [op |-> "none", pc |-> "free", player |-> "", bc |-> NoBc]
NewSock == [pc |-> "new", player |-> "", open |-> FALSE, bc |-> NoBc]
\* A websocket handler that has ended.
DoneSock == [pc |-> "done", player |-> "", open |-> FALSE, bc |-> NoBc]

\* No handler returned in this step.
NoResponse == [op |-> "none", result |-> ""]

Idle == [kind |-> "none", id |-> 0]
ReqTask(i) == [kind |-> "req", id |-> i]

FreeSlots == {i \in Reqs : req[i].pc = "free"}
NewSockets == {s \in Sockets : sock[s].pc = "new"}

Active == player_keys[turn_index + 1]

InitGame ==
    /\ players = <<>>
    /\ player_keys = <<>>
    /\ turn_index = 0
    /\ deck = generate_deck
    /\ websocket_connections = <<>>
    /\ lock = 0
    /\ waiters = <<>>
    /\ req = [i \in Reqs |-> FreeReq]
    /\ sock = [s \in Sockets |-> NewSock]
    /\ running = Idle
    /\ response = NoResponse

Init ==
    /\ InitGame
    /\ sent_cards = <<>>
    /\ scored = <<>>
    /\ shopper = NewPlayer("p1")
    /\ selecting = NoSelection

\* An HTTP handler returns (or raises) without having broadcast: its task
\* ends and the event loop is free again.
Return(i, op, result) ==
    /\ req' = [req EXCEPT ![i] = FreeReq]
    /\ response' = [op |-> op, result |-> result]
    /\ running' = Idle
    /\ UNCHANGED <<websocket_connections, sock>>

\* The tail of every HTTP handler: `await game.broadcast(...)` and the return.
\* run is the broadcast's progress up to its next suspension.  end_turn
\* broadcasts inside `async with game.lock`, so it holds the lock while it is
\* suspended in a send and releases it when it leaves the block.
ReqAfterBroadcast(i, rec, run) ==
    /\ websocket_connections' = run.conns
    /\ sock' = ShiftAll(sock, run.at)
    /\ running' = Idle
    /\ IF run.status = "send"
         THEN /\ req' = [req EXCEPT ![i] = [rec EXCEPT !.pc = "bc_send", !.player = "",
                                                          !.bc = run.bc]]
              /\ response' = NoResponse
              /\ lock' = IF rec.op = "end_turn" THEN i ELSE lock
         ELSE /\ req' = ShiftAll([req EXCEPT ![i] = FreeReq], run.at)
              /\ response' = [op |-> rec.op,
                              result |-> IF run.status = "done" THEN "ok" ELSE run.status]
              /\ lock' = IF rec.op = "end_turn" THEN 0 ELSE lock

\* ---------------------------------------------------------- HTTP handlers
\* join_game
JoinGame(p) ==
    /\ running = Idle
    /\ FreeSlots # {}
    /\ LET i == SetMin(FreeSlots)
           ap == add_player(players, player_keys, p)
       IN /\ players' = ap.players
          /\ player_keys' = ap.keys
          /\ UNCHANGED <<turn_index, deck, waiters>>
          /\ ReqAfterBroadcast(i, [FreeReq EXCEPT !.op = "join", !.player = p],
                               BroadcastBegin(websocket_connections))

\* discard, up to and including its turn check (it never takes the lock)
DiscardStart(p) ==
    /\ running = Idle
    /\ FreeSlots # {}
    /\ UNCHANGED <<session, lock, waiters>>
    /\ LET i == SetMin(FreeSlots)
       IN IF p \notin DOMAIN players
            THEN Return(i, "discard", "Player not found")
          ELSE IF turn_index >= Len(player_keys)
            THEN Return(i, "discard", "IndexError")
          ELSE IF p # Active
            THEN Return(i, "discard", "Not your turn")
          ELSE /\ req' = [req EXCEPT ![i] = [FreeReq EXCEPT !.op = "discard",
                                                 !.pc = "d_checked", !.player = p]]
               /\ running' = ReqTask(i)
               /\ response' = NoResponse
               /\ UNCHANGED <<websocket_connections, sock>>

\* discard, from the selection check to the broadcast; cards is the request's
\* "cards" field, which the handler first looks at here.
DiscardMutate(i, cards) ==
    /\ running = ReqTask(i)
    /\ req[i].pc = "d_checked"
    /\ UNCHANGED waiters
    /\ LET p == req[i].player
       IN IF cards = <<>>
            THEN Return(i, "discard", "No cards selected") /\ UNCHANGED <<session, lock>>
          ELSE IF players[p].remaining_discards < 1
            THEN Return(i, "discard", "No discards remaining") /\ UNCHANGED <<session, lock>>
          ELSE \E o \in remove_selected_cards(
                          [players EXCEPT ![p].remaining_discards = @ - 1],
                          deck, p, cards) :
                /\ players' = o.players
                /\ deck' = o.deck
                /\ UNCHANGED <<player_keys, turn_index>>
                /\ IF o.error # ""
                     THEN Return(i, "discard", o.error) /\ UNCHANGED lock
                     ELSE ReqAfterBroadcast(i, req[i], BroadcastBegin(websocket_connections))

\* play_hand's locked block without its turn check.
PlayHandLocked_NoTurnCheck(i, p) ==
    /\ lock' = 0
    /\ UNCHANGED session
    /\ req' = [req EXCEPT ![i] = [FreeReq EXCEPT !.op = "play_hand",
                                       !.pc = "ph_checked", !.player = p]]
    /\ running' = ReqTask(i)
    /\ response' = NoResponse
    /\ UNCHANGED <<websocket_connections, sock>>

\* play_hand inside `async with game.lock`: the turn check; the lock is
\* released when the block is left, before anything is changed.  Entered with
\* the lock free; task i takes it and gives it back within the step.
PlayHandLocked(i, p) ==
    /\ lock' = 0
    /\ UNCHANGED session
    /\ IF turn_index >= Len(player_keys)
         THEN Return(i, "play_hand", "IndexError")
       ELSE IF p # Active
         THEN Return(i, "play_hand", "Not your turn")
       ELSE /\ req' = [req EXCEPT ![i] = [FreeReq EXCEPT !.op = "play_hand",
                                              !.pc = "ph_checked", !.player = p]]
            /\ running' = ReqTask(i)
            /\ response' = NoResponse
            /\ UNCHANGED <<websocket_connections, sock>>

\* play_hand from its first line: the player and opponent lookups, then
\* `async with game.lock`, which suspends the task when the lock is taken.
PlayHandStart(p) ==
    /\ running = Idle
    /\ FreeSlots # {}
    /\ LET i == SetMin(FreeSlots)
       IN IF p \notin DOMAIN players
            THEN Return(i, "play_hand", "Player not found")
                 /\ UNCHANGED <<session, lock, waiters>>
          ELSE IF DOMAIN players \ {p} = {}
            THEN Return(i, "play_hand", "IndexError")
                 /\ UNCHANGED <<session, lock, waiters>>
          ELSE IF lock = 0 /\ waiters = <<>>
            THEN PlayHandLocked(i, p) /\ UNCHANGED waiters
          ELSE /\ waiters' = Append(waiters, i)
               /\ req' = [req EXCEPT ![i] = [FreeReq EXCEPT !.op = "play_hand",
                                                 !.pc = "wait", !.player = p]]
               /\ response' = NoResponse
               /\ UNCHANGED <<session, lock, running, websocket_connections, sock>>

\* The opponent play_hand looks up before the lock: the first other player
\* in join order (players are never removed, so it is the same one later).
Opponent(p) ==
    player_keys[SetMin({k \in 1..Len(player_keys) : player_keys[k] # p})]

\* play_hand after the lock with the damage subtracted without the floor at 0.
PlayHandMutate_NoFloor(i, cards) ==
    /\ running = ReqTask(i)
    /\ req[i].pc = "ph_checked"
    /\ UNCHANGED waiters
    /\ LET p == req[i].player
       IN IF cards = <<>>
            THEN Return(i, "play_hand", "No cards selected") /\ UNCHANGED <<session, lock>>
          ELSE \E o \in remove_selected_cards(players, deck, p, cards) :
                IF o.error # ""
                  THEN Return(i, "play_hand", o.error) /\ UNCHANGED <<session, lock>>
                  ELSE LET damage == calculate_damage(cards).total_damage
                           opp == Opponent(p)
                           hit == o.players[opp].health - damage
                           hurt == [o.players EXCEPT ![opp].health = hit]
                           won == [hurt EXCEPT ![p].wins = @ + 1]
                           rs == reset_game(won)
                       IN /\ players' = IF hit = 0 THEN rs.players ELSE hurt
                          /\ deck' = IF hit = 0 THEN rs.deck ELSE o.deck
                          /\ turn_index' = ((IF hit = 0 THEN rs.turn_index ELSE turn_index) + 1)
                                              % Len(player_keys)
                          /\ UNCHANGED player_keys
                          /\ ReqAfterBroadcast(i, req[i],
                                               BroadcastBegin(websocket_connections))

\* play_hand after the lock: damage, removal, win check, turn, broadcast
PlayHandMutate(i, cards) ==
    /\ running = ReqTask(i)
    /\ req[i].pc = "ph_checked"
    /\ UNCHANGED waiters
    /\ LET p == req[i].player
       IN IF cards = <<>>
            THEN Return(i, "play_hand", "No cards selected") /\ UNCHANGED <<session, lock>>
          ELSE \E o \in remove_selected_cards(players, deck, p, cards) :
                IF o.error # ""
                  THEN Return(i, "play_hand", o.error) /\ UNCHANGED <<session, lock>>
                  ELSE LET damage == calculate_damage(cards).total_damage
                           opp == Opponent(p)
                           hit == IF o.players[opp].health - damage > 0
                                    THEN o.players[opp].health - damage ELSE 0
                           hurt == [o.players EXCEPT ![opp].health = hit]
                           won == [hurt EXCEPT ![p].wins = @ + 1]
                           rs == reset_game(won)
                       IN /\ players' = IF hit = 0 THEN rs.players ELSE hurt
                          /\ deck' = IF hit = 0 THEN rs.deck ELSE o.deck
                          /\ turn_index' = ((IF hit = 0 THEN rs.turn_index ELSE turn_index) + 1)
                                              % Len(player_keys)
                          /\ UNCHANGED player_keys
                          /\ ReqAfterBroadcast(i, req[i],
                                               BroadcastBegin(websocket_connections))

\* end_turn's locked block advancing the turn without the modulo.
EndTurnLocked_NoWrap(i, p) ==
    IF turn_index >= Len(player_keys)
      THEN Return(i, "end_turn", "IndexError") /\ UNCHANGED <<session, lock>>
    ELSE IF p # Active
      THEN Return(i, "end_turn", "Not your turn") /\ UNCHANGED <<session, lock>>
    ELSE /\ turn_index' = turn_index + 1
         /\ UNCHANGED <<players, player_keys, deck>>
         /\ ReqAfterBroadcast(i, [FreeReq EXCEPT !.op = "end_turn", !.player = p],
                              BroadcastBegin(websocket_connections))

\* end_turn inside `async with game.lock`: turn check, advance, broadcast.
\* Entered with the lock free; task i takes it.
EndTurnLocked(i, p) ==
    IF turn_index >= Len(player_keys)
      THEN Return(i, "end_turn", "IndexError") /\ UNCHANGED <<session, lock>>
    ELSE IF p # Active
      THEN Return(i, "end_turn", "Not your turn") /\ UNCHANGED <<session, lock>>
    ELSE /\ turn_index' = (turn_index + 1) % Len(player_keys)
         /\ UNCHANGED <<players, player_keys, deck>>
         /\ ReqAfterBroadcast(i, [FreeReq EXCEPT !.op = "end_turn", !.player = p],
                              BroadcastBegin(websocket_connections))

\* end_turn from its first line
EndTurnStart(p) ==
    /\ running = Idle
    /\ FreeSlots # {}
    /\ LET i == SetMin(FreeSlots)
       IN IF lock = 0 /\ waiters = <<>>
            THEN EndTurnLocked(i, p) /\ UNCHANGED waiters
            ELSE /\ waiters' = Append(waiters, i)
                 /\ req' = [req EXCEPT ![i] = [FreeReq EXCEPT !.op = "end_turn",
                                                   !.pc = "wait", !.player = p]]
                 /\ response' = NoResponse
                 /\ UNCHANGED <<session, lock, running, websocket_connections, sock>>

\* The event loop resumes the first task queued on the lock once it is free.
LockWake(i) ==
    /\ running = Idle
    /\ lock = 0
    /\ waiters # <<>>
    /\ Head(waiters) = i
    /\ waiters' = Tail(waiters)
    /\ IF req[i].op = "play_hand"
         THEN PlayHandLocked(i, req[i].player)
         ELSE EndTurnLocked(i, req[i].player)

\* A handler suspended in a broadcast's `await ws.send_json` is resumed: the
\* send succeeded if the connection is still open, else it raised.
ReqSendDone(i) ==
    /\ running = Idle
    /\ req[i].pc = "bc_send"
    /\ UNCHANGED <<session, waiters>>
    /\ ReqAfterBroadcast(i, req[i],
           BroadcastResume(req[i].bc, websocket_connections, sock[req[i].bc.ws].open))

\* ------------------------------------------------------ game_websocket
\* A websocket handler ends by raising exc (it has no HTTP client: the result
\* is what the server logs).
WsEnded(exc) == [op |-> "websocket", result |-> exc]

\* A client opens a websocket.  The handler closes it for an unknown player;
\* else it accepts, registers the connection, deals the initial hand if the
\* player holds no cards, and sends the hand message.  sent: the send
\* succeeded and the handler now waits in receive_json; otherwise the send
\* raised (outside the try block, so the handler ends without removing its
\* registration).  The handler reads no session state after its suspensions
\* in accept and send_json (players are never removed), so they are not
\* separate steps.
WsConnect(p, sent) ==
    /\ running = Idle
    /\ NewSockets # {}
    /\ UNCHANGED <<player_keys, turn_index, lock, waiters, req, running>>
    /\ LET s == SetMin(NewSockets)
       IN IF p \notin DOMAIN players
            THEN /\ sent
                 /\ sock' = [sock EXCEPT ![s] = DoneSock]
                 /\ response' = WsEnded("closed")
                 /\ UNCHANGED <<players, deck, websocket_connections>>
            ELSE /\ websocket_connections' = SetConn(websocket_connections, p, s)
                 /\ sock' = [sock EXCEPT ![s] =
                               IF sent
                                 THEN [NewSock EXCEPT !.pc = "recv", !.player = p, !.open = TRUE]
                                 ELSE DoneSock]
                 /\ response' = IF sent THEN NoResponse ELSE WsEnded("send failed")
                 /\ IF players[p].hand = <<>>
                      THEN \E o \in InitialDeal(<<>>, deck, HandSize) :
                              /\ players' = [players EXCEPT ![p].hand = o.hand]
                              /\ deck' = o.deck
                      ELSE UNCHANGED <<players, deck>>

\* receive_json returned a message: `await game.broadcast(data)` begins.
WsReceive(s) ==
    /\ running = Idle
    /\ sock[s].pc = "recv"
    /\ sock[s].open
    /\ websocket_connections # <<>>
    /\ LET run == BroadcastBegin(websocket_connections)
       IN sock' = [sock EXCEPT ![s].pc = "bc_send", ![s].bc = run.bc]
    /\ response' = NoResponse
    /\ UNCHANGED <<session, websocket_connections, lock, waiters, req, running>>

\* The handler's `finally: del game.websocket_connections[player_id]` after
\* the exception exc ("disconnect" for WebSocketDisconnect, which is caught).
WsCleanup(s, conns, at, exc) ==
    LET rm == DelConn(conns, sock[s].player)
    IN /\ websocket_connections' = rm.conns
       /\ sock' = ShiftAll([sock EXCEPT ![s] = DoneSock], at \o rm.at)
       /\ req' = ShiftAll(req, at \o rm.at)
       /\ response' = WsEnded(IF rm.error # "" THEN rm.error ELSE exc)

\* receive_json raised WebSocketDisconnect.
WsDisconnect(s) ==
    /\ running = Idle
    /\ sock[s].pc = "recv"
    /\ ~sock[s].open
    /\ WsCleanup(s, websocket_connections, <<>>, "disconnect")
    /\ UNCHANGED <<session, lock, waiters, running>>

\* The websocket handler's own broadcast is resumed after a send.
WsSendDone(s) ==
    /\ running = Idle
    /\ sock[s].pc = "bc_send"
    /\ UNCHANGED <<session, lock, waiters, running>>
    /\ LET run == BroadcastResume(sock[s].bc, websocket_connections,
                                  sock[sock[s].bc.ws].open)
       IN IF run.status = "send"
            THEN /\ sock' = [sock EXCEPT ![s].bc = run.bc]
                 /\ response' = NoResponse
                 /\ UNCHANGED <<websocket_connections, req>>
          ELSE IF run.status = "done"
            THEN /\ websocket_connections' = run.conns
                 /\ sock' = ShiftAll([sock EXCEPT ![s].pc = "recv", ![s].bc = NoBc], run.at)
                 /\ req' = ShiftAll(req, run.at)
                 /\ response' = NoResponse
          ELSE WsCleanup(s, run.conns, run.at, run.status)

\* The client goes away.
PeerClose(s) ==
    /\ running = Idle
    /\ sock[s].pc \in {"recv", "bc_send"}
    /\ sock[s].open
    /\ sock' = [sock EXCEPT ![s].open = FALSE]
    /\ response' = NoResponse
    /\ UNCHANGED <<session, websocket_connections, lock, waiters, req, running>>

\* ------------------------------------------------------------------ system
\* The game: every HTTP handler, with clients that open websockets and then
\* stay connected and silent.
Next ==
    \/ \E p \in Names : JoinGame(p) /\ UNCHANGED calls
    \/ \E p \in Names : DiscardStart(p) /\ UNCHANGED calls
    \/ \E i \in Reqs, cards \in Selections : DiscardMutate(i, cards) /\ UNCHANGED calls
    \/ \E p \in Names : PlayHandStart(p) /\ UNCHANGED calls
    \/ \E i \in Reqs, cards \in Selections : PlayHandMutate(i, cards) /\ UNCHANGED calls
    \/ \E p \in Names : EndTurnStart(p) /\ UNCHANGED calls
    \/ \E i \in Reqs : LockWake(i) /\ UNCHANGED calls
    \/ \E i \in Reqs : ReqSendDone(i) /\ UNCHANGED calls
    \/ \E p \in Names : WsConnect(p, TRUE) /\ UNCHANGED calls

Spec == Init /\ [][Next]_vars

\* The connection registry: players join, connect, talk and leave, and turns
\* end, under every interleaving; no cards are played or discarded.
NextNet ==
    \/ \E p \in Names : JoinGame(p) /\ UNCHANGED calls
    \/ \E p \in Names : EndTurnStart(p) /\ UNCHANGED calls
    \/ \E i \in Reqs : LockWake(i) /\ UNCHANGED calls
    \/ \E i \in Reqs : ReqSendDone(i) /\ UNCHANGED calls
    \/ \E p \in Names, sent \in BOOLEAN : WsConnect(p, sent) /\ UNCHANGED calls
    \/ \E s \in Sockets : WsReceive(s) /\ UNCHANGED calls
    \/ \E s \in Sockets : WsDisconnect(s) /\ UNCHANGED calls
    \/ \E s \in Sockets : WsSendDone(s) /\ UNCHANGED calls
    \/ \E s \in Sockets : PeerClose(s) /\ UNCHANGED calls

SpecNet == Init /\ [][NextNet]_vars

\* ---------------------------------------------------- calculate_damage alone
\* The cards sent to be scored: six ranks in two suits, any number of copies
\* of each (the deck holds ten of every card).
ScoreRanks == {"2", "3", "4", "5", "6", "A"}
ScoreSuits == {"Fire", "Air"}
ScoreCards == [rank : ScoreRanks, suit : ScoreSuits]

\* A hand of three tens and two threes.
FullHouseHand ==
    <<[rank |-> "10", suit |-> "Fire"], [rank |-> "10", suit |-> "Air"],
      [rank |-> "10", suit |-> "Earth"], [rank |-> "3", suit |-> "Fire"],
      [rank |-> "3", suit |-> "Air"]>>

\* Cards are added to a selection in this order, so that each collection of
\* cards is built once.
CardKey(c) == 2 * rank_dict[c.rank] + (IF c.suit = "Fire" THEN 0 ELSE 1)

\* The same cards in another order: 1 reversed, 2 the first moved to the end,
\* 3 the first two exchanged.
Reordered(cards, k) ==
    LET n == Len(cards)
    IN IF k = 1 THEN [i \in 1..n |-> cards[n + 1 - i]]
       ELSE IF k = 2 THEN Tail(cards) \o <<Head(cards)>>
       ELSE IF n >= 2 THEN <<cards[2], cards[1]>> \o SubSeq(cards, 3, n)
       ELSE cards

InitScore ==
    /\ InitGame
    /\ sent_cards \in {<<>>, FullHouseHand}
    /\ scored = <<>>
    /\ shopper = NewPlayer("p1")
    /\ selecting = NoSelection

\* The client adds a card to the "cards" field of its request.
SelectCard(c) ==
    /\ scored = <<>>
    /\ Len(sent_cards) < MaxScored
    /\ sent_cards # <<>> => CardKey(sent_cards[Len(sent_cards)]) <= CardKey(c)
    /\ sent_cards' = Append(sent_cards, c)
    /\ UNCHANGED <<scored, shopper, selecting, session, websocket_connections, lock,
                   waiters, req, sock, running, response>>

\* damage, hand_type, multiplier = calculate_damage(selected_cards)
Score ==
    /\ sent_cards # <<>>
    /\ scored = <<>>
    /\ scored' = <<calculate_damage(sent_cards)>>
    /\ UNCHANGED <<sent_cards, shopper, selecting, session, websocket_connections, lock, waiters,
                   req, sock, running, response>>

\* The same cards are sent in another order and scored again.
ScoreAgain(k) ==
    /\ Len(scored) = 1
    /\ sent_cards' = Reordered(sent_cards, k)
    /\ scored' = Append(scored, calculate_damage(sent_cards'))
    /\ UNCHANGED <<shopper, selecting, session, websocket_connections, lock, waiters, req, sock,
                   running, response>>

NextScore ==
    \/ \E c \in ScoreCards : SelectCard(c)
    \/ Score
    \/ \E k \in 1..3 : ScoreAgain(k)

SpecScore == InitScore /\ [][NextScore]_vars

\* ------------------------------------------ the Game of src/game.py alone
\* Player.reset of src/player.py: the hand is kept (`#self.hand = []`).
Player_reset(pl) ==
    [pl EXCEPT !.health = pl.max_health, !.remaining_discards = pl.max_discards]

\* Game(): no players yet, a full deck.
InitDeck ==
    /\ InitGame
    /\ sent_cards = <<>>
    /\ scored = <<>>
    /\ shopper = NewPlayer("p1")
    /\ selecting = NoSelection

\* What the methods of Game leave alone: the connections and the handler tasks.
tasks == <<websocket_connections, lock, waiters, req, sock, running>>

\* game.add_player(player_name)
AddPlayer(p) ==
    /\ p \notin DOMAIN players
    /\ players' = (p :> NewPlayer(p)) @@ players
    /\ player_keys' = Append(player_keys, p)
    /\ response' = [op |-> "add_player", result |-> "ok"]
    /\ UNCHANGED <<turn_index, deck>>

\* game.deal_card(player_id), called as the refill loop calls it: for a hand
\* that is not full.  An empty deck is regenerated first.
DealCard(p) ==
    /\ IF p \notin DOMAIN players
         THEN /\ response' = [op |-> "deal_card", result |-> "Player not found"]
              /\ UNCHANGED <<players, deck>>
         ELSE /\ Len(players[p].hand) < HandSize
              /\ \E o \in deal_card(players[p].hand, deck) :
                    /\ players' = [players EXCEPT ![p].hand = o.hand]
                    /\ deck' = o.deck
              /\ response' = [op |-> "deal_card", result |-> "ok"]
    /\ UNCHANGED <<player_keys, turn_index>>

\* game.remove_selected_cards(player_id, selected_cards)
RemoveSelectedCards(p, cards) ==
    /\ \E o \in remove_selected_cards(players, deck, p, cards) :
          /\ players' = o.players
          /\ deck' = o.deck
          /\ response' = [op |-> "remove_selected_cards",
                          result |-> IF o.error = "" THEN "ok" ELSE o.error]
    /\ UNCHANGED <<player_keys, turn_index>>

\* game.reset_game(): a new deck, every player reset, turn_index 0.  The
\* store selections it then sends change nothing of the game.
ResetGame ==
    /\ deck' = generate_deck
    /\ players' = [n \in DOMAIN players |-> Player_reset(players[n])]
    /\ turn_index' = 0
    /\ response' = [op |-> "reset_game", result |-> "ok"]
    /\ UNCHANGED player_keys

NextDeck ==
    \/ \E p \in Names : AddPlayer(p) /\ UNCHANGED <<calls, tasks>>
    \/ \E p \in Names : DealCard(p) /\ UNCHANGED <<calls, tasks>>
    \/ \E p \in Names, cards \in Selections :
          RemoveSelectedCards(p, cards) /\ UNCHANGED <<calls, tasks>>
    \/ ResetGame /\ UNCHANGED <<calls, tasks>>

SpecDeck == InitDeck /\ [][NextDeck]_vars

\* ------------------------------------------------ the upgrade store alone
\* The upgrades a player is offered or already owns: two flat and two
\* percentage health bonuses, a discard, a damage and an elemental bonus.
OwnedIds == {1, 2, 4, 5, 6, 9, 13}
\* The ids a purchase may name: those and one no catalog entry carries.
BuyIds == OwnedIds \cup {99}

\* A player of an earlier round: its upgrades are owned, its gold earned, its
\* health and discards partly spent.
InitStore ==
    /\ InitGame
    /\ sent_cards = <<>>
    /\ scored = <<>>
    /\ \E ids \in SeqsUpTo(OwnedIds, MaxOwned), gold \in 0..MaxGold,
          health \in {40, 100}, remaining_discards \in {0, 1} :
          shopper = [NewPlayer("p1") EXCEPT
                        !.upgrades = [k \in 1..Len(ids) |-> get_upgrade_by_id(ids[k])],
                        !.gold = gold, !.health = health,
                        !.remaining_discards = remaining_discards]
    /\ selecting = NoSelection

\* player.apply_upgrades()
ApplyUpgrades ==
    /\ shopper' = apply_upgrades(shopper)
    /\ response' = [op |-> "apply_upgrades", result |-> "ok"]
    /\ UNCHANGED <<sent_cards, scored, selecting, session, websocket_connections, lock, waiters,
                   req, sock, running>>

\* buy_upgrade(name, upgrade_id): the price is looked up in the catalog;
\* ValidationError if it is unknown, FundsError if it exceeds the player's
\* gold; otherwise the gold is deducted, the upgrade appended to the owned
\* list and apply_upgrades invoked again.
BuyUpgrade(upgrade_id) ==
    LET price == get_price_by_id(upgrade_id)
        \* the price is None exactly when no upgrade carries the id
        result == IF get_upgrade_by_id(upgrade_id) = None THEN "ValidationError"
                  ELSE IF price > shopper.gold THEN "FundsError"
                  ELSE "ok"
    IN /\ result = "ok" => Len(shopper.upgrades) < MaxOwned
       /\ shopper' =
            IF result = "ok"
            THEN apply_upgrades([shopper EXCEPT
                                    !.gold = @ - price,
                                    !.upgrades = Append(@, get_upgrade_by_id(upgrade_id))])
            ELSE shopper
       /\ response' = [op |-> "buy_upgrade", result |-> result]
       /\ UNCHANGED <<sent_cards, scored, selecting, session, websocket_connections, lock, waiters,
                      req, sock, running>>

NextStore ==
    \/ ApplyUpgrades
    \/ \E upgrade_id \in BuyIds : BuyUpgrade(upgrade_id)

SpecStore == InitStore /\ [][NextStore]_vars

\* --------------------------------------- get_selection_of_upgrades alone
\* `while len(selection) < 5`
LoopContinues_Four(selection) == Cardinality(selection) < 4
LoopContinues(selection) == Cardinality(selection) < SelectionSize

\* The upgrades of a set in the order of their ids.
RECURSIVE ById(_)
ById(S) ==
    IF S = {} THEN <<>>
    ELSE LET first == CHOOSE u \in S : \A v \in S : u.id <= v.id
         IN <<first>> \o ById(S \ {first})

\* list(selection): the order in which a set of objects is listed is not
\* fixed by the program; the order of the ids and its reverse stand for the
\* orders a run may produce.
ListOrders == 0..1
ListOf(S, order) == IF order = 0 THEN ById(S) ELSE Reordered(ById(S), order)

\* The call has begun: `selection = set()`, the weights and rarities are set.
InitSelect ==
    /\ InitGame
    /\ sent_cards = <<>>
    /\ scored = <<>>
    /\ shopper = NewPlayer("p1")
    /\ selecting = [pc |-> "loop", selection |-> {}, result |-> <<>>]

\* One turn of the loop: random.choices picked chosen_rarity (every weight is
\* positive) and, the tier being non-empty, random.choice its k-th upgrade,
\* which is added to the set.
LoopTurn(chosen_rarity, k) ==
    /\ selecting.pc = "loop"
    /\ LoopContinues(selecting.selection)
    /\ IF StoreUpgrades[chosen_rarity] # <<>>
         THEN /\ k \in 1..Len(StoreUpgrades[chosen_rarity])
              /\ selecting' = [selecting EXCEPT
                                  !.selection = @ \cup {StoreUpgrades[chosen_rarity][k]}]
         ELSE /\ k = 1
              /\ UNCHANGED selecting
    /\ UNCHANGED <<sent_cards, scored, shopper, session, tasks, response>>

\* The loop is left: `return list(selection)`.
ReturnSelection(order) ==
    /\ selecting.pc = "loop"
    /\ ~LoopContinues(selecting.selection)
    /\ selecting' = [selecting EXCEPT !.pc = "returned",
                                      !.result = ListOf(selecting.selection, order)]
    /\ UNCHANGED <<sent_cards, scored, shopper, session, tasks, response>>

NextSelect ==
    \/ \E chosen_rarity \in DOMAIN StoreUpgrades, k \in 1..Len(AddedUpgrades) :
          LoopTurn(chosen_rarity, k)
    \/ \E order \in ListOrders : ReturnSelection(order)

SpecSelect == InitSelect /\ [][NextSelect]_vars

\* A turn of the loop that adds an upgrade not yet selected.  Every upgrade
\* is drawn with positive probability in every turn, so such a turn cannot be
\* put off for ever.
NewUpgradeDrawn ==
    /\ \E chosen_rarity \in DOMAIN StoreUpgrades, k \in 1..Len(AddedUpgrades) :
          LoopTurn(chosen_rarity, k)
    /\ selecting'.selection # selecting.selection

SpecSelectFair ==
    /\ SpecSelect
    /\ WF_vars(NewUpgradeDrawn)
    /\ WF_vars(\E order \in ListOrders : ReturnSelection(order))

\* ------------------------------------------------------------------ claims
TwoPlayers == Len(player_keys) = 2

\* The step just taken is one in which player p's handler made its turn
\* check: discard at once, play_hand and end_turn once they have the lock.
DiscardChecks(p) == DiscardStart(p)
PlayHandChecks(p) ==
    \/ lock = 0 /\ waiters = <<>> /\ PlayHandStart(p)
    \/ \E i \in Reqs : req[i].op = "play_hand" /\ req[i].player = p /\ LockWake(i)
EndTurnChecks(p) ==
    \/ lock = 0 /\ waiters = <<>> /\ EndTurnStart(p)
    \/ \E i \in Reqs : req[i].op = "end_turn" /\ req[i].player = p /\ LockWake(i)

\* C1: with two joined players, a discard, play_hand or end_turn by the joined
\* player who is not the active one returns "Not your turn" and leaves the
\* players (health, hand, remaining_discards, wins, gold), the deck and
\* turn_index unchanged.
C1_NotYourTurn ==
    [][\A p \in Names :
          (/\ TwoPlayers
           /\ p \in DOMAIN players
           /\ p # Active
           /\ (DiscardChecks(p) \/ PlayHandChecks(p) \/ EndTurnChecks(p)))
          => (response'.result = "Not your turn" /\ UNCHANGED session)]_vars

\* C1 witness: a joined, non-active player's play_hand was just refused.
C1_Witness ==
    /\ TwoPlayers
    /\ response = [op |-> "play_hand", result |-> "Not your turn"]
    /\ \E p \in DOMAIN players : players[p].hand # <<>>

\* The step just taken is task i's play_hand or discard going through to its
\* broadcast (the handler did not return an error).
PlayHandSucceeds(i) ==
    /\ running = ReqTask(i)
    /\ req[i].pc = "ph_checked"
    /\ response'.result \in {"", "ok"}
DiscardSucceeds(i) ==
    /\ running = ReqTask(i)
    /\ req[i].pc = "d_checked"
    /\ response'.result \in {"", "ok"}
\* The step just taken is an end_turn by the active player advancing the turn.
EndTurnSucceeds ==
    /\ turn_index < Len(player_keys)
    /\ EndTurnChecks(Active)

\* C2: in a two-player session, after every successful play_hand or end_turn
\* (a round-ending play_hand included) the active player is the one who was
\* not active before.
C2_Alternation ==
    [][(TwoPlayers /\ (EndTurnSucceeds \/ \E i \in Reqs : PlayHandSucceeds(i)))
          => (turn_index' \in {0, 1} /\ turn_index' # turn_index)]_vars

\* The step just taken is task i's play_hand of cards taking the opponent's
\* health to 0.
RoundEnding(i, cards) ==
    /\ PlayHandSucceeds(i)
    /\ cards # <<>>
    /\ calculate_damage(cards).total_damage >= players[Opponent(req[i].player)].health
    /\ PlayHandMutate(i, cards)

\* What a round-ending play_hand by task i leaves behind, with turn_index t.
RoundResetTo(i, t) ==
    LET p == req[i].player
        o == Opponent(p)
    IN /\ players'[p].wins = players[p].wins + 1
       /\ players'[o].wins = players[o].wins
       /\ \A n \in DOMAIN players : players'[n].health = players'[n].max_health
       /\ turn_index' = t

C4_LockHeld ==
    \A i \in Reqs : req[i].pc \in {"d_checked", "ph_checked"} => lock = i

\* C5: remaining_discards goes down only in a successful discard by that
\* player, and then by exactly one; a discard that returns an error leaves the
\* session (remaining_discards included) unchanged.
C5_Discards ==
    [][/\ \A p \in DOMAIN players :
            players'[p].remaining_discards < players[p].remaining_discards
              => /\ \E i \in Reqs : DiscardSucceeds(i) /\ req[i].player = p
                 /\ players'[p].remaining_discards = players[p].remaining_discards - 1
       /\ (response'.op = "discard" /\ response'.result \notin {"", "ok"})
              => UNCHANGED session]_vars

\* C6: after every successful discard or play_hand by a player who held a full
\* hand, that player again holds a full hand (the deck is regenerated if it
\* runs out during the refill); and no hand ever holds more than a full hand.
\* Plays that end the round are left out: reset_game then empties every hand,
\* whatever the refill did.
C6_Refill ==
    /\ [][\A i \in Reqs :
            (/\ DiscardSucceeds(i) \/ PlayHandSucceeds(i)
             /\ Len(players[req[i].player].hand) = HandSize
             /\ players'[req[i].player].wins = players[req[i].player].wins)
            => Len(players'[req[i].player].hand) = HandSize]_vars
    /\ [](\A p \in DOMAIN players : Len(players[p].hand) <= HandSize)

\* C7: no discard, play_hand or end_turn ends in an unhandled exception,
\* whatever the number of players and whoever the request names.
C7_NoException ==
    response.op \in {"discard", "play_hand", "end_turn"}
        => response.result \notin {"IndexError", "KeyError", "RuntimeError"}

\* C10: whenever the session has a player, 0 <= turn_index < number of players.
C10_TurnIndexInRange ==
    player_keys # <<>> => (0 <= turn_index /\ turn_index < Len(player_keys))

\* C10 witness: the turn has advanced past the first player after a round
\* reset.
C10_Witness ==
    /\ TwoPlayers
    /\ turn_index = 1
    /\ \E p \in DOMAIN players : players[p].wins > 0

\* The players that have a registered connection.
Registered(conns) == {conns[k].player : k \in 1..Len(conns)}
\* The players a broadcast suspended with iterator state bc has failed to
\* reach, the send it is suspended in included.
Failed(bc) ==
    {bc.failed[k] : k \in 1..Len(bc.failed)}
        \cup (IF sock[bc.ws].open THEN {} ELSE {bc.player})

\* C8: a broadcast tries every registered connection; a failed send is not
\* raised to the handler that broadcasts, and when the broadcast is over
\* exactly the connections whose send failed have been removed.
C8_Broadcast ==
    [][\A i \in Reqs :
          (req[i].pc = "bc_send" /\ req'[i].pc # "bc_send")
          => /\ response'.result = "ok"
             /\ Registered(websocket_connections')
                  = Registered(websocket_connections) \ Failed(req[i].bc)]_vars

\* C9: the registered connections do not change while a broadcast is iterating
\* over them, and no removal targets an entry that is already gone.
C9_Registry ==
    [][/\ ((\E i \in Reqs : req[i].pc = "bc_send" /\ req'[i].pc = "bc_send")
            \/ (\E s \in Sockets : sock[s].pc = "bc_send" /\ sock'[s].pc = "bc_send"))
          => Registered(websocket_connections') = Registered(websocket_connections)
       /\ response'.result # "KeyError"]_vars

\* C11: every player's health stays within 0..max_health; a play_hand that
\* does not end the round lowers the opponent's health by the damage of the
\* played cards (floored at 0) and leaves the acting player's health alone.
C11_Health ==
    /\ [](\A n \in DOMAIN players :
            0 <= players[n].health /\ players[n].health <= players[n].max_health)
    /\ [][\A i \in Reqs, cards \in Selections :
            (PlayHandSucceeds(i) /\ cards # <<>> /\ PlayHandMutate(i, cards)
               /\ ~RoundEnding(i, cards))
            => LET p == req[i].player
                   o == Opponent(p)
                   left == players[o].health - calculate_damage(cards).total_damage
               IN /\ players'[p].health = players[p].health
                  /\ players'[o].health = IF left > 0 THEN left ELSE 0]_vars

\* C11 witness: a player has been hit and is still in the round.
C11_Witness ==
    /\ TwoPlayers
    /\ \E n \in DOMAIN players :
          0 < players[n].health /\ players[n].health < players[n].max_health

\* The cards of hand that a selection does not name, in hand order.
KeptCards(hand, selected_cards) ==
    LET Kept(c) == \A k \in 1..Len(selected_cards) : selected_cards[k] # c
    IN SelectSeq(hand, Kept)

\* C12: a round reset restores every player's health to max_health and
\* remaining_discards to max_discards (1 without upgrades) and does not clear
\* the hands: the opponent's hand is as before and the acting player still
\* holds the cards it did not play; gold, max_health and the opponent's wins
\* are unchanged.
C12_ResetFrame ==
    [][\A i \in Reqs, cards \in Selections :
          RoundEnding(i, cards)
          => LET p == req[i].player
                 o == Opponent(p)
                 kept == KeptCards(players[p].hand, cards)
             IN /\ \A n \in DOMAIN players :
                      /\ players'[n].health = players'[n].max_health
                      /\ players'[n].max_health = players[n].max_health
                      /\ players'[n].remaining_discards = 1
                      /\ players'[n].gold = players[n].gold
                /\ players'[o].wins = players[o].wins
                /\ players'[o].hand = players[o].hand
                /\ Len(players'[p].hand) >= Len(kept)
                /\ SubSeq(players'[p].hand, 1, Len(kept)) = kept]_vars

\* The scoring rule as the specification words it, over the collection of
\* cards whatever their order.  Value is the numeric rank (2..10 literal, J 11,
\* Q 12, K 13, A 14); Tally(cards)[v] is the number of cards of value v.
RankOrder == <<"2", "3", "4", "5", "6", "7", "8", "9", "10", "J", "Q", "K", "A">>
Value == [k \in 1..13 |-> k + 1]
ValueOf == [rank \in {RankOrder[k] : k \in 1..13} |->
              Value[CHOOSE k \in 1..13 : RankOrder[k] = rank]]
Tally(cards) ==
    [v \in 2..14 |-> Cardinality({i \in 1..Len(cards) : ValueOf[cards[i].rank] = v})]
OneSuit(cards) == \A i \in 1..Len(cards) : cards[i].suit = cards[1].suit
HasRun(tally) == \E lo \in 2..10 : \A v \in lo..(lo + 4) : tally[v] > 0
TopFive(D) == {v \in D : Cardinality({w \in D : w > v}) < 5}
RuleCategory(cards) ==
    LET tally == Tally(cards)
        D == {v \in 2..14 : tally[v] > 0}
        flush == OneSuit(cards) /\ Len(cards) >= 5
        straight == HasRun(tally) \/ (Cardinality(D) >= 5 /\ TopFive(D) = {2, 3, 4, 5, 14})
        Some(k) == \E v \in D : tally[v] = k
    IN CASE straight /\ flush /\ 14 \in D -> "royal flush"
         [] straight /\ flush /\ 14 \notin D -> "straight flush"
         [] OTHER ->
            CASE Some(4) -> "four of a kind"
              [] OTHER ->
            CASE \E v, w \in D : v # w /\ tally[v] = 3 /\ tally[w] = 2 -> "full house"
              [] OTHER ->
            CASE flush -> "flush"
              [] OTHER ->
            CASE straight -> "straight"
              [] OTHER ->
            CASE Some(3) -> "three of a kind"
              [] OTHER ->
            CASE Cardinality({v \in D : tally[v] = 2}) = 2 -> "two pair"
              [] OTHER ->
            CASE Some(2) -> "pair"
              [] OTHER -> "high card"
RuleMultiplier(category) ==
    CASE category = "high card" -> 1
      [] category \in {"pair", "two pair"} -> 2
      [] category = "three of a kind" -> 3
      [] category \in {"straight", "flush", "full house"} -> 4
      [] category = "four of a kind" -> 7
      [] category = "straight flush" -> 8
      [] category = "royal flush" -> 10
RuleSum(cards) ==
    LET tally == Tally(cards)
        RECURSIVE Upto(_)
        Upto(v) == IF v < 2 THEN 0 ELSE v * tally[v] + Upto(v - 1)
    IN Upto(14)
RuleScore(cards) ==
    LET category == RuleCategory(cards)
    IN [total_damage |-> (RuleSum(cards) \div 5) * RuleMultiplier(category),
        hand_type |-> category,
        multiplier |-> RuleMultiplier(category)]

C14_StraightFlush ==
    (scored # <<>> /\ Len(sent_cards) >= 5 /\ OneSuit(sent_cards))
    => LET tally == Tally(sent_cards)
       IN HasRun(tally)
          => \A k \in 1..Len(scored) :
               /\ scored[k].hand_type =
                    (IF tally[14] > 0 THEN "royal flush" ELSE "straight flush")
               /\ scored[k].multiplier = (IF tally[14] > 0 THEN 10 ELSE 8)

\* C14 witness: a straight flush that also holds four cards of one rank.
C14_Witness ==
    /\ scored # <<>>
    /\ OneSuit(sent_cards)
    /\ HasRun(Tally(sent_cards))
    /\ \E v \in 2..14 : Tally(sent_cards)[v] = 4
    /\ scored[1].hand_type = "straight flush"

\* C15: with fewer than five cards is_straight and is_flush are both false
\* and the category is none of straight, flush, full house, straight flush
\* and royal flush.
C15_LengthGuard ==
    (scored # <<>> /\ Len(sent_cards) < 5)
    => /\ ~is_straight(sent_cards)
       /\ ~is_flush(sent_cards)
       /\ \A k \in 1..Len(scored) :
             scored[k].hand_type \notin {"straight", "flush", "full house",
                                         "straight flush", "royal flush"}

\* C15 witness: four cards of one suit and four different ranks were scored.
C15_Witness ==
    /\ scored # <<>>
    /\ Len(sent_cards) = 4
    /\ OneSuit(sent_cards)
    /\ \A v \in 2..14 : Tally(sent_cards)[v] <= 1
    /\ scored[1].hand_type = "high card"

\* ---- C16
OwnedNamed(pl, name) == SelectSeq(pl.upgrades, LAMBDA u : u.name = name)
Amounts(ups) == [k \in 1..Len(ups) |-> ups[k].effect.amount]
RECURSIVE ProductOf(_)
ProductOf(factors) ==
    IF factors = <<>> THEN 1 ELSE Head(factors) * ProductOf(Tail(factors))
\* 100 + f1 + ... + fm over the owned flat health bonuses.
FlatHealth(pl) == 100 + SumSeq(Amounts(OwnedNamed(pl, <<"Increase", "Health">>)))
\* p1, ..., pk of the owned percentage health bonuses.
HealthPercents(pl) == Amounts(OwnedNamed(pl, <<"Increase", "Health", "%">>))
\* floor((100 + sum fi) * product(1 + pj/100))
ProductHealth(pl) ==
    LET ps == HealthPercents(pl)
    IN (FlatHealth(pl) * ProductOf([k \in 1..Len(ps) |-> 100 + ps[k]]))
          \div ProductOf([k \in 1..Len(ps) |-> 100])
\* floor((100 + sum fi) * (1 + (p1 + ... + pk)/100))
SumHealth(pl) == (FlatHealth(pl) * (100 + SumSeq(HealthPercents(pl)))) \div 100

\* What the claim says of apply_upgrades besides the value of max_health.
Refreshed(pl) ==
    /\ pl.health = pl.max_health
    /\ pl.remaining_discards = pl.max_discards
    /\ apply_upgrades(pl) = pl
    /\ pl.upgrades = <<>> =>
          /\ pl.max_health = 100 /\ pl.max_discards = 1
          /\ pl.damage_modifier = 100 /\ pl.water_damage_modifier = 100
          /\ pl.fire_damage_modifier = 100 /\ pl.air_damage_modifier = 100
          /\ pl.earth_damage_modifier = 100

\* C16 as stated: apply_upgrades recomputes from the base values, max_health
\* becomes floor((100 + sum of flat bonuses) * product of (1 + pj/100)), health
\* and remaining_discards are refreshed and a second application changes
\* nothing.
C16_ProductOfPercentages ==
    [][ApplyUpgrades =>
          /\ shopper'.max_health = ProductHealth(shopper)
          /\ Refreshed(shopper')]_vars

\* C16 amended: the percentage bonuses add up into one factor, max_health
\* becomes floor((100 + sum of flat bonuses) * (1 + (p1 + ... + pk)/100)); health
\* and remaining_discards are refreshed, nothing else of the player changes
\* and a second application changes nothing.
C16_SumOfPercentages ==
    [][ApplyUpgrades =>
          /\ shopper'.max_health = SumHealth(shopper)
          /\ shopper'.upgrades = shopper.upgrades
          /\ shopper'.gold = shopper.gold
          /\ Refreshed(shopper')]_vars

\* apply_upgrades has run on a player owning a flat and two percentage
\* health bonuses whose health and discards were spent.
C16_Witness ==
    /\ response.op = "apply_upgrades"
    /\ Len(HealthPercents(shopper)) = 2
    /\ FlatHealth(shopper) = 120
    /\ shopper.max_health = 210
    /\ shopper.health = 210
    /\ shopper.gold = 0


\* ---- C17
\* The catalog entries carrying an id, read off the catalog as it was added.
CatalogEntries(upgrade_id) ==
    {AddedUpgrades[k] : k \in {j \in 1..Len(AddedUpgrades) :
                                  AddedUpgrades[j].id = upgrade_id}}

C17_Refused ==
    /\ response = [op |-> "buy_upgrade", result |-> "FundsError"]
    /\ shopper.gold = 5


\* ---- C18
\* C18: every successful play_hand increases the acting player's gold by
\* exactly the multiplier of the played hand's category and leaves the
\* opponent's gold unchanged.
C18_GoldGrant ==
    [][\A i \in Reqs, cards \in Selections :
          (PlayHandSucceeds(i) /\ cards # <<>> /\ PlayHandMutate(i, cards))
            => LET p == req[i].player
                   o == Opponent(p)
               IN /\ players'[p].gold = players[p].gold + calculate_damage(cards).multiplier
                  /\ players'[o].gold = players[o].gold]_vars


\* ---- C19
\* C19: on connection establishment a player whose hand is empty is dealt
\* exactly a full hand of cards removed from the deck, and a player whose hand
\* is non-empty is dealt nothing (hand and deck unchanged).
C19_DealOnConnect ==
    [][\A p \in DOMAIN players, sent \in BOOLEAN :
          WsConnect(p, sent) =>
            IF players[p].hand = <<>>
              THEN /\ Len(players'[p].hand) = HandSize
                   /\ DeckSize(deck') = DeckSize(deck) - HandSize
                   /\ \A c \in Cards :
                         deck[c] - deck'[c] =
                           Cardinality({k \in 1..HandSize : players'[p].hand[k] = c})
              ELSE players' = players /\ deck' = deck]_vars


\* ---- C20
HandCount(ps, c) ==
    SumSeq([k \in 1..Len(player_keys) |->
              Cardinality({j \in 1..Len(ps[player_keys[k]].hand) :
                              ps[player_keys[k]].hand[j] = c})])
InHands(ps) == SumSeq([k \in 1..Len(player_keys) |-> Len(ps[player_keys[k]].hand)])

\* C20: the cards of the deck and of all hands together never exceed one
\* full deck, in all and of each kind, and each draw moves exactly one card
\* from the deck into one hand, after any sequence of deals, removals, deck
\* regenerations and round resets.
C20_CardAccounting ==
    /\ [](/\ DeckSize(deck) + InHands(players) <= DeckSize(generate_deck)
          /\ \A c \in Cards : deck[c] + HandCount(players, c) <= generate_deck[c])
    /\ [][\A p \in DOMAIN players :
            (DealCard(p) /\ response'.result = "ok")
              => /\ DeckSize(deck') = DeckSize(deck) - 1
                 /\ Len(players'[p].hand) = Len(players[p].hand) + 1
                 /\ \A n \in DOMAIN players \ {p} : players'[n] = players[n]]_vars


\* ---- C21
\* C21: get_selection_of_upgrades returns exactly 5 pairwise distinct
\* upgrades of the catalog, each of a non-empty rarity tier, and under fair
\* random choice the call returns.
C21_Selection ==
    /\ [](selecting.pc = "returned" =>
            LET result == selecting.result
            IN /\ Len(result) = 5
               /\ \A i, j \in 1..Len(result) : i # j => result[i] # result[j]
               /\ \A i \in 1..Len(result) :
                     /\ \E k \in 1..Len(AddedUpgrades) : AddedUpgrades[k] = result[i]
                     /\ StoreUpgrades[result[i].rarity] # <<>>)
    /\ <>(selecting.pc = "returned")

\* The call has returned a selection holding a legendary and a common
\* upgrade.
C21_Witness ==
    /\ selecting.pc = "returned"
    /\ Len(selecting.result) = 5
    /\ \E i, j \in 1..Len(selecting.result) :
          /\ selecting.result[i].rarity = "legendary"
          /\ selecting.result[j].rarity = "common"


\* ---- C22
\* C22: whenever a play_hand succeeds, every card of the scored selection was
\* in the acting player's hand before the action; a selection with a card
\* absent from the hand leaves the opponent's health as it was.
C22_ScoredCardsHeld ==
    [][\A i \in Reqs, cards \in Selections :
          (running = ReqTask(i) /\ req[i].pc = "ph_checked" /\ cards # <<>>
             /\ PlayHandMutate(i, cards))
            => LET p == req[i].player
                   o == Opponent(p)
                   held == {players[p].hand[k] : k \in 1..Len(players[p].hand)}
                   absent == {k \in 1..Len(cards) : cards[k] \notin held}
               IN /\ PlayHandSucceeds(i) => absent = {}
                  /\ absent # {} => players'[o].health = players[o].health]_vars


\* ---- C23
\* The hand without one card per selected card: the first copy of each.
RECURSIVE WithoutOneEach(_, _)
WithoutOneEach(hand, selected) ==
    IF selected = <<>> THEN hand
    ELSE LET at == {k \in 1..Len(hand) : hand[k] = Head(selected)}
             rest == IF at = {} THEN hand
                     ELSE SubSeq(hand, 1, SetMin(at) - 1)
                            \o SubSeq(hand, SetMin(at) + 1, Len(hand))
         IN WithoutOneEach(rest, Tail(selected))

\* C23: a successful discard or play_hand (one that does not end the round)
\* removes one hand card per selected card, so that the copies not selected
\* stay at the front of the hand before the refill, and the 'discarded' list
\* of the removal is as long as the selection.
C23_OneCardPerSelected ==
    [][\A i \in Reqs, cards \in Selections :
          (\/ DiscardSucceeds(i) /\ DiscardMutate(i, cards)
           \/ PlayHandSucceeds(i) /\ cards # <<>> /\ PlayHandMutate(i, cards)
                 /\ ~RoundEnding(i, cards))
            => LET p == req[i].player
                   stay == WithoutOneEach(players[p].hand, cards)
               IN /\ Len(stay) = Len(players[p].hand) - Len(cards)
                  /\ Len(players'[p].hand) >= Len(stay)
                  /\ SubSeq(players'[p].hand, 1, Len(stay)) = stay
                  /\ \A o \in remove_selected_cards(players, deck, p, cards) :
                        o.error = "" => Len(o.discarded) = Len(cards)]_vars


\* ---- C24
\* C24: for every collection of up to 8 cards in which some rank occurs at
\* least four times, calculate_damage returns a multiplier of at least 7
\* (four of a kind or better).
C24_FourOrMore ==
    (scored # <<>> /\ \E v \in 2..14 : Tally(sent_cards)[v] >= 4)
    => \A k \in 1..Len(scored) : scored[k].multiplier >= 7


\* ---- C25
\* A connection whose handler is serving it and whose client has not gone.
OpenConnection(s) == sock[s].pc \in {"recv", "bc_send"} /\ sock[s].open

\* C25: a player stays registered for as long as it has an open connection:
\* when the handler of one of its connections ends and cleans up, a player
\* that has another, open connection and was registered is still registered.
C25_StaysRegistered ==
    [][\A s \in Sockets :
          (sock[s].pc \in {"recv", "bc_send"} /\ sock'[s].pc = "done")
            => \A t \in Sockets \ {s} :
                 (OpenConnection(t)
                    /\ sock[t].player \in Registered(websocket_connections))
                   => sock[t].player \in Registered(websocket_connections')]_vars

====
